---- MODULE Spec2Model ----
(***************************************************************************)
(* USBPcapHelperFunctions.c: resolving the USB address of a device through *)
(* its parent hub.  One call of USBPcapGetDeviceUSBAddress (or of          *)
(* USBPcapGetNumberOfPorts) is a sequential process c; the lower driver    *)
(* stack (bus driver, hub driver, PnP manager) is the environment.         *)
(***************************************************************************)
EXTENDS Integers, Sequences, FiniteSets, TLC

\* ------------------------------------------------------------------ bounds

\* Longest location text of the exhaustively enumerated texts.
MaxLen == 3

\* Ports of the synthetic hub: 1..NumPorts.
NumPorts == 3

\* Calls that exist (Spec runs one of them, the others stay unused).
NumCalls == 2

Calls == 1..NumCalls

\* ------------------------------------------------------------ NTSTATUS

STATUS_SUCCESS == 0

STATUS_PENDING == 259

STATUS_UNSUCCESSFUL == -1073741823

STATUS_INVALID_PARAMETER == -1073741811

STATUS_INVALID_DEVICE_REQUEST == -1073741808

STATUS_BUFFER_TOO_SMALL == -1073741789

STATUS_INSUFFICIENT_RESOURCES == -1073741670

STATUS_NOT_SUPPORTED == -1073741637

\* NT_SUCCESS(Status): ((NTSTATUS)(Status)) >= 0
NT_SUCCESS(s) == s >= 0

\* The value of a local or an output nobody has written yet.
Uninit == -1

\* Final statuses a lower driver completes a request with.
CompletionStatus == {STATUS_SUCCESS, STATUS_NOT_SUPPORTED, STATUS_UNSUCCESSFUL}

\* ------------------------------------------------------------ ULONG

\* A ULONG (32 bits) as two 16-bit halves.
ULong(hi, lo) == [hi |-> hi, lo |-> lo]

ULongOf(n) == ULong(n \div 65536, n % 65536)

ULongMulAdd(v, base, d) ==
    LET l == v.lo * base + d
    IN  ULong((v.hi * base + l \div 65536) % 65536, l % 65536)

\* (ULONG)(-(LONG)v)
ULongNeg(v) ==
    IF v.lo = 0
    THEN ULong((65536 - v.hi) % 65536, 0)
    ELSE ULong(65535 - v.hi, 65536 - v.lo)

\* ------------------------------------------------------------ WCHAR text

NUL == "\\0"

Alphabet == {"P", "#", ".", "0", "3"}

RECURSIVE TextsUpTo(_)
TextsUpTo(n) ==
    IF n = 0 THEN {<<>>}
    ELSE LET shorter == TextsUpTo(n - 1)
         IN  shorter \cup {Append(t, ch) : t \in {s \in shorter : Len(s) = n - 1},
                                           ch \in Alphabet}

\* Location texts the platform is known to produce, and texts off the convention.
LongTexts ==
    { <<"P","o","r","t","_","#","0","0","0","3",".","H","u","b","_","#","0","0","0","1">>,
      <<"P","o","r","t","_","#","0","0","0","0",".","H","u","b","_","#","0","0","0","1">>,
      <<"N","o","H","a","s","h","H","e","r","e">>,
      <<"P","o","r","t","_","#",".","H","u","b","_","#","1">>,
      <<"#","4","2","9","4","9","6","7","2","9","9",".">>,
      <<"#","-","3",".">>,
      <<"#","0","x","1","0",".">> }

Texts == TextsUpTo(MaxLen) \cup LongTexts

Digits == <<"0","1","2","3","4","5","6","7","8","9","a","b","c","d","e","f">>

UpperDigits == <<"A","B","C","D","E","F">>

\* The value of a character as a digit, 16 when it is none.
DigitOf(ch) ==
    IF \E i \in 1..16 : Digits[i] = ch
    THEN (CHOOSE i \in 1..16 : Digits[i] = ch) - 1
    ELSE IF \E i \in 1..6 : UpperDigits[i] = ch
         THEN (CHOOSE i \in 1..6 : UpperDigits[i] = ch) + 9
         ELSE 16

\* wch <= L' '
IsBlank(ch) == ch \in {" ", NUL, "\t"}

\* --------------------------------------------- RtlUnicodeStringToInteger

RECURSIVE SkipBlanks(_)
SkipBlanks(s) ==
    IF s # <<>> /\ IsBlank(Head(s)) THEN SkipBlanks(Tail(s)) ELSE s

SkipSign(s) ==
    IF s # <<>> /\ Head(s) \in {"+", "-"} THEN Tail(s) ELSE s

\* Base 0: a "0x", "0o" or "0b" prefix selects the base, otherwise 10.
BasePrefix(s) ==
    IF Len(s) >= 2 /\ s[1] = "0" /\ s[2] \in {"x", "o", "b"}
    THEN CASE s[2] = "x" -> 16 [] s[2] = "o" -> 8 [] s[2] = "b" -> 2
    ELSE 10

RECURSIVE Accumulate(_, _, _)
Accumulate(s, base, total) ==
    IF s = <<>> \/ DigitOf(Head(s)) >= base
    THEN total
    ELSE Accumulate(Tail(s), base, ULongMulAdd(total, base, DigitOf(Head(s))))

\* The value the routine stores for a counted string and base 0.
ConvertedValue(s) ==
    LET t     == SkipBlanks(s)
        minus == t # <<>> /\ Head(t) = "-"
        u     == SkipSign(t)
        base  == BasePrefix(u)
        v     == IF base = 10 THEN u ELSE SubSeq(u, 3, Len(u))
        total == Accumulate(v, base, ULong(0, 0))
    IN  IF minus THEN ULongNeg(total) ELSE total

\* ------------------------------------------------------------ state

VARIABLES
    op,            \* the routine call c runs
    locationText,  \* DevicePropertyLocationInformation of c's device (platform)
    nodeType,      \* what c's parent node is: "UsbHub" or "UsbMIParent" (platform)
    pc,            \* where call c stands
    status,        \* the running routine's local `status`
    irp,           \* the request of call c: its kind and state
    event,         \* KEVENT event: signalled or not
    ioStatus,      \* IO_STATUS_BLOCK: Status, Information
    refCount,      \* reference count of the device's PDO
    relations,     \* the DEVICE_RELATIONS pool block
    devicePdo,     \* USBPcapGetDeviceUSBAddress's local devicePdo
    location,      \* contents of the pool block `location` points to
    locPool,       \* "unset", "null", "allocated" or "freed"
    length,        \* ULONG length, in bytes
    idx,           \* ULONG idx
    strLength,     \* str.Length / sizeof(WCHAR)
    overrun,       \* accesses of location[] past the block: read, write
    port,          \* ULONG port
    info,          \* USB_NODE_CONNECTION_INFORMATION info
    nodeInfo,      \* USB_NODE_INFORMATION info of USBPcapGetNumberOfPorts
    out,           \* the caller's outputs: *address, *numberOfPorts
    result,        \* the status the call returned
    trace          \* what call c did, in order

envVars == <<op, locationText, nodeType>>

irpVars == <<irp, event, ioStatus>>

pdoVars == <<refCount, relations, devicePdo>>

locVars == <<location, locPool, length, idx, strLength, overrun>>

outVars == <<port, info, nodeInfo, out, result>>

vars == <<envVars, pc, status, irpVars, pdoVars, locVars, outVars, trace>>

\* Reference count of a PDO nobody outside the PnP manager refers to.
RefBaseline == 1

UninitULong == ULong(Uninit, Uninit)

\* USB_NODE_CONNECTION_INFORMATION info; as declared, nothing stored in it.
UninitInfo == [ConnectionIndex |-> UninitULong, DeviceAddress |-> Uninit]

\* What *address and *numberOfPorts hold when the call is made.
PreCall == -2

NoIrp == [kind |-> "none", state |-> "none"]

Ev(e, k, s) == [e |-> e, k |-> k, s |-> s]

Log(c, evs) == trace' = [trace EXCEPT ![c] = @ \o evs]

\* The address the hub of call c has assigned to the device at port p.
HubAddress(c, p) == 16 * c + p

\* Interfaces of the composite parent of call c.
NumInterfaces == 2

ValidPort(v) == v.hi = 0 /\ v.lo \in 1..NumPorts

\* ------------------------------------------------------------ Init

\* What a call is made on: the routine, and the device tree it runs against.
AddressInputs ==
    {[op |-> "USBPcapGetDeviceUSBAddress", text |-> t, nodeType |-> "UsbHub"] :
        t \in Texts}

PortCountInputs ==
    {[op |-> "USBPcapGetNumberOfPorts", text |-> <<>>, nodeType |-> n] :
        n \in {"UsbHub", "UsbMIParent"}}

UnusedInput == [op |-> "none", text |-> <<>>, nodeType |-> "UsbHub"]

InitCalls(active, inputs) ==
    \E inp \in [active -> inputs] :
    LET in(c) == IF c \in active THEN inp[c] ELSE UnusedInput IN
    /\ op = [c \in Calls |-> in(c).op]
    /\ locationText = [c \in Calls |-> in(c).text]
    /\ nodeType = [c \in Calls |-> in(c).nodeType]
    /\ pc = [c \in Calls |->
               IF c \notin active THEN "unused"
               ELSE IF in(c).op = "USBPcapGetDeviceUSBAddress" THEN "pdo_build"
               ELSE "nports_build"]
    /\ status = [c \in Calls |-> Uninit]
    /\ irp = [c \in Calls |-> NoIrp]
    /\ event = [c \in Calls |-> FALSE]
    /\ ioStatus = [c \in Calls |-> [Status |-> Uninit, Information |-> "none"]]
    /\ refCount = [c \in Calls |-> RefBaseline]
    /\ relations = [c \in Calls |-> [pool |-> "none", Objects |-> <<>>]]
    /\ devicePdo = [c \in Calls |-> Uninit]
    /\ location = [c \in Calls |-> <<>>]
    /\ locPool = [c \in Calls |-> "unset"]
    /\ length = [c \in Calls |-> Uninit]
    /\ idx = [c \in Calls |-> Uninit]
    /\ strLength = [c \in Calls |-> Uninit]
    /\ overrun = [c \in Calls |-> [read |-> FALSE, write |-> FALSE]]
    /\ port = [c \in Calls |-> UninitULong]
    /\ info = [c \in Calls |-> UninitInfo]
    /\ nodeInfo = [c \in Calls |-> [NodeType |-> "unset", bNumberOfPorts |-> Uninit,
                                     NumberOfInterfaces |-> Uninit]]
    /\ out = [c \in Calls |-> [address |-> PreCall, numberOfPorts |-> PreCall]]
    /\ result = [c \in Calls |-> Uninit]
    /\ trace = [c \in Calls |-> <<>>]

Init == InitCalls({1}, AddressInputs \cup PortCountInputs)

\* ------------------------------------------------- the lower driver stack

\* What no step of the request bridge touches.
restVars == <<envVars, devicePdo, locVars, port, out, result>>

\* The PDO of call c's device.
PdoOf(c) == c

\* Statuses the lower driver may complete call c's request with: a hub has no
\* port of an index outside 1..NumPorts.
LowerStatuses(c) ==
    IF irp[c].kind = "connection" /\ ~ValidPort(info[c].ConnectionIndex)
    THEN {STATUS_INVALID_PARAMETER}
    ELSE CompletionStatus

\* What the completion of call c's request with status s leaves behind.  A
\* successful relations query takes a reference on the PDO and allocates the
\* DEVICE_RELATIONS block; a successful ioctl fills the caller's buffer.
Completed(c, s) ==
    LET k  == irp[c].kind
        ok == NT_SUCCESS(s)
    IN  /\ irp' = [irp EXCEPT ![c].state = "completed"]
        /\ ioStatus' = [ioStatus EXCEPT ![c] =
               [Status |-> s,
                Information |-> IF ok THEN k ELSE "none"]]
        /\ event' = [event EXCEPT ![c] = TRUE]
        /\ refCount' = [refCount EXCEPT ![PdoOf(c)] =
               IF ok /\ k = "relations" THEN @ + 1 ELSE @]
        /\ relations' = [relations EXCEPT ![c] =
               IF ok /\ k = "relations"
               THEN [pool |-> "allocated", Objects |-> <<PdoOf(c)>>] ELSE @]
        /\ info' = [info EXCEPT ![c].DeviceAddress =
               IF ok /\ k = "connection"
               THEN HubAddress(c, info[c].ConnectionIndex.lo) ELSE @]
        /\ nodeInfo' = [nodeInfo EXCEPT ![c] =
               IF ok /\ k = "node"
               THEN IF nodeType[c] = "UsbHub"
                    THEN [NodeType |-> "UsbHub", bNumberOfPorts |-> NumPorts,
                          NumberOfInterfaces |-> Uninit]
                    ELSE [NodeType |-> "UsbMIParent", bNumberOfPorts |-> Uninit,
                          NumberOfInterfaces |-> NumInterfaces]
               ELSE @]

CompletionEvents(c, s) ==
    <<Ev("complete", irp[c].kind, s)>> \o
    (IF NT_SUCCESS(s) /\ irp[c].kind = "relations"
     THEN <<Ev("acquire", "pdo", STATUS_SUCCESS)>> ELSE <<>>)

\* The lower driver completes a request it had reported pending.
LowerComplete(c) ==
    /\ irp[c].state = "pending"
    /\ \E s \in LowerStatuses(c) :
          /\ Completed(c, s)
          /\ Log(c, CompletionEvents(c, s))
    /\ UNCHANGED <<pc, status, restVars>>

\* ------------------------------------------------- the request bridge

\* Variant: another status for a request that could not be built.
BuildFailure_Unsuccessful == STATUS_UNSUCCESSFUL

\* if (irp == NULL) return STATUS_INSUFFICIENT_RESOURCES;
BuildFailure == STATUS_INSUFFICIENT_RESOURCES

\* KeInitializeEvent and IoBuild...Request; the routine returns at once when
\* no request could be built.
BuildRequest(c, kind, fn, callPc, retPc) ==
    /\ \/ /\ irp' = [irp EXCEPT ![c] = [kind |-> kind, state |-> "built"]]
          /\ pc' = [pc EXCEPT ![c] = callPc]
          /\ Log(c, <<Ev("build", kind, STATUS_SUCCESS)>>)
          /\ UNCHANGED status
       \/ /\ status' = [status EXCEPT ![c] = BuildFailure]
          /\ pc' = [pc EXCEPT ![c] = retPc]
          /\ Log(c, <<Ev("build", kind, STATUS_INSUFFICIENT_RESOURCES),
                      Ev("return", fn, BuildFailure)>>)
          /\ UNCHANGED irp
    /\ event' = [event EXCEPT ![c] = FALSE]
    /\ UNCHANGED <<ioStatus, refCount, relations, restVars>>

\* Variant: the wait entered whatever IoCallDriver returned.
IsPending_Always(s) == TRUE

\* if (status == STATUS_PENDING)
IsPending(s) == s = STATUS_PENDING

\* status = IoCallDriver(...): the request completes before the call returns,
\* or the call returns STATUS_PENDING and the request completes later.
CallDriver(c, waitPc, nextPc) ==
    /\ irp[c].state = "built"
    /\ \/ \E s \in LowerStatuses(c) :
             /\ Completed(c, s)
             /\ status' = [status EXCEPT ![c] = s]
             /\ pc' = [pc EXCEPT ![c] = IF IsPending(s) THEN waitPc ELSE nextPc]
             /\ Log(c, CompletionEvents(c, s) \o <<Ev("dispatch", irp[c].kind, s)>>)
       \/ /\ irp' = [irp EXCEPT ![c].state = "pending"]
          /\ status' = [status EXCEPT ![c] = STATUS_PENDING]
          /\ pc' = [pc EXCEPT ![c] = IF IsPending(STATUS_PENDING) THEN waitPc ELSE nextPc]
          /\ Log(c, <<Ev("dispatch", irp[c].kind, STATUS_PENDING)>>)
          /\ UNCHANGED <<event, ioStatus, refCount, relations, info, nodeInfo>>
    /\ UNCHANGED restVars

\* Variant: a wait that returns whether or not the event is signalled.
Signalled_NoWait(c) == TRUE

\* Variant: one event for all calls (a static KEVENT).
Signalled_Shared(c) == \E d \in Calls : event[d]

\* KeWaitForSingleObject(&event, ..., NULL) returns once the event is signalled.
Signalled(c) == event[c]

\* status = ioStatus.Status
StatusAfterWait(c) == ioStatus[c].Status

WaitForCompletion(c, nextPc) ==
    /\ Signalled(c)
    /\ status' = [status EXCEPT ![c] = StatusAfterWait(c)]
    /\ pc' = [pc EXCEPT ![c] = nextPc]
    /\ Log(c, <<Ev("wait", irp[c].kind, StatusAfterWait(c))>>)
    /\ UNCHANGED <<irpVars, refCount, relations, info, nodeInfo, restVars>>

\* ------------------------------------------------- return to the caller

\* The call of c is over: `st` is what its caller gets.
Return(c, fn, st) ==
    /\ pc' = [pc EXCEPT ![c] = "done"]
    /\ result' = [result EXCEPT ![c] = st]
    /\ Log(c, <<Ev("return", fn, st)>>)

\* ------------------------------------------------- USBPcapGetTargetDevicePdo

PdoBuild(c) ==
    /\ pc[c] = "pdo_build"
    /\ BuildRequest(c, "relations", "USBPcapGetTargetDevicePdo",
                    "pdo_call", "addr_pdo_ret")
    /\ UNCHANGED <<info, nodeInfo>>

PdoCall(c) ==
    /\ pc[c] = "pdo_call"
    /\ CallDriver(c, "pdo_wait", "pdo_check")

PdoWait(c) ==
    /\ pc[c] = "pdo_wait"
    /\ WaitForCompletion(c, "pdo_check")

\* *pdo = deviceRelations->Objects[0]
FirstObject(c) == relations[c].Objects[1]

\* Variant: the DEVICE_RELATIONS block is left allocated.
FreedRelations_Leaked(c) == relations[c]

\* ExFreePool(deviceRelations)
FreedRelations(c) == [relations[c] EXCEPT !.pool = "freed"]

\* if (NT_SUCCESS(status)) { *pdo = ...; ExFreePool(deviceRelations); }
\* return status;
PdoCheck(c) ==
    /\ pc[c] = "pdo_check"
    /\ IF NT_SUCCESS(status[c])
       THEN /\ devicePdo' = [devicePdo EXCEPT ![c] = FirstObject(c)]
            /\ relations' = [relations EXCEPT ![c] = FreedRelations(c)]
            /\ Log(c, <<Ev("free", "relations", STATUS_SUCCESS),
                        Ev("return", "USBPcapGetTargetDevicePdo", status[c])>>)
       ELSE /\ Log(c, <<Ev("return", "USBPcapGetTargetDevicePdo", status[c])>>)
            /\ UNCHANGED <<devicePdo, relations>>
    /\ pc' = [pc EXCEPT ![c] = "addr_pdo_ret"]
    /\ UNCHANGED <<envVars, status, irpVars, refCount, locVars, outVars>>

\* ------------------------------------------------- USBPcapGetDeviceUSBAddress

\* status = USBPcapGetTargetDevicePdo(device, &devicePdo);
\* if (!NT_SUCCESS(status)) return status;
AddrPdoRet(c) ==
    /\ pc[c] = "addr_pdo_ret"
    /\ IF NT_SUCCESS(status[c])
       THEN /\ pc' = [pc EXCEPT ![c] = "port_probe"]
            /\ UNCHANGED <<result, trace>>
       ELSE Return(c, "USBPcapGetDeviceUSBAddress", status[c])
    /\ UNCHANGED <<envVars, status, irpVars, pdoVars, locVars,
                   port, info, nodeInfo, out>>

\* Variant: the dereference placed after the failure return.
Dereferenced_AfterReturn(c) ==
    IF NT_SUCCESS(status[c]) THEN refCount[devicePdo[c]] - 1
    ELSE refCount[devicePdo[c]]

\* Variant: the reference is kept.
Dereferenced_Kept(c) == refCount[devicePdo[c]]

\* The reference count ObDereferenceObject(devicePdo) leaves the object
\* `devicePdo` points to with.
Dereferenced(c) == refCount[devicePdo[c]] - 1

\* Variant: the status of USBPcapGetTargetDevicePort is not looked at.
PortFailed_Unchecked(c) == FALSE

\* if (!NT_SUCCESS(status)) after USBPcapGetTargetDevicePort
PortFailed(c) == ~NT_SUCCESS(status[c])

\* status = USBPcapGetTargetDevicePort(devicePdo, &port);
\* ObDereferenceObject((PVOID)devicePdo);
\* if (!NT_SUCCESS(status)) return status;
AddrDeref(c) ==
    /\ pc[c] = "addr_deref"
    /\ refCount' = [refCount EXCEPT ![devicePdo[c]] = Dereferenced(c)]
    /\ IF ~PortFailed(c)
       THEN /\ pc' = [pc EXCEPT ![c] = "info_build"]
            /\ Log(c, <<Ev("release", "pdo", STATUS_SUCCESS)>>)
            /\ UNCHANGED result
       ELSE /\ pc' = [pc EXCEPT ![c] = "done"]
            /\ result' = [result EXCEPT ![c] = status[c]]
            /\ Log(c, <<Ev("release", "pdo", STATUS_SUCCESS),
                        Ev("return", "USBPcapGetDeviceUSBAddress", status[c])>>)
    /\ UNCHANGED <<envVars, status, irpVars, relations, devicePdo, locVars,
                   port, info, nodeInfo, out>>

\* *address = info.DeviceAddress
AddressOut(c) == info[c].DeviceAddress

\* Variant: the address is stored whatever the status.
AddressWritten_Always(c) == TRUE

\* if (NT_SUCCESS(status)) after USBPcapGetNodeInformation
AddressWritten(c) == NT_SUCCESS(status[c])

\* status = USBPcapGetNodeInformation(hub, port, &info);
\* if (NT_SUCCESS(status)) *address = info.DeviceAddress;
\* return status;
AddrInfoRet(c) ==
    /\ pc[c] = "addr_info_ret"
    /\ out' = [out EXCEPT ![c].address =
                  IF AddressWritten(c) THEN AddressOut(c) ELSE @]
    /\ Return(c, "USBPcapGetDeviceUSBAddress", status[c])
    /\ UNCHANGED <<envVars, status, irpVars, pdoVars, locVars,
                   port, info, nodeInfo>>

\* ------------------------------------------------- USBPcapGetNodeInformation

\* Variant: the port taken as a zero-based index.
ConnectionIndexOf_ZeroBased(c) == ULong(port[c].hi, port[c].lo - 1)

\* info->ConnectionIndex = port
ConnectionIndexOf(c) == port[c]

InfoBuild(c) ==
    /\ pc[c] = "info_build"
    /\ info' = [info EXCEPT ![c].ConnectionIndex = ConnectionIndexOf(c)]
    /\ BuildRequest(c, "connection", "USBPcapGetNodeInformation",
                    "info_call", "addr_info_ret")
    /\ UNCHANGED nodeInfo

InfoCall(c) ==
    /\ pc[c] = "info_call"
    /\ CallDriver(c, "info_wait", "info_ret")

InfoWait(c) ==
    /\ pc[c] = "info_wait"
    /\ WaitForCompletion(c, "info_ret")

\* return status
InfoRet(c) ==
    /\ pc[c] = "info_ret"
    /\ pc' = [pc EXCEPT ![c] = "addr_info_ret"]
    /\ Log(c, <<Ev("return", "USBPcapGetNodeInformation", status[c])>>)
    /\ UNCHANGED <<envVars, status, irpVars, pdoVars, locVars, outVars>>

\* ------------------------------------------------- USBPcapGetNumberOfPorts

NPortsBuild(c) ==
    /\ pc[c] = "nports_build"
    /\ nodeInfo' = [nodeInfo EXCEPT ![c].NodeType = "UsbHub"]
    /\ BuildRequest(c, "node", "USBPcapGetNumberOfPorts",
                    "nports_call", "nports_caller")
    /\ UNCHANGED info

NPortsCall(c) ==
    /\ pc[c] = "nports_call"
    /\ CallDriver(c, "nports_wait", "nports_ret")

NPortsWait(c) ==
    /\ pc[c] = "nports_wait"
    /\ WaitForCompletion(c, "nports_ret")

\* Variant: the node is taken to be the hub it was asked about.
NumberOfPortsOut_HubOnly(c) == nodeInfo[c].bNumberOfPorts

\* What the successful routine stores in *numberOfPorts.
NumberOfPortsOut(c) ==
    IF nodeInfo[c].NodeType = "UsbHub"
    THEN nodeInfo[c].bNumberOfPorts
    ELSE nodeInfo[c].NumberOfInterfaces

\* if (!NT_SUCCESS(status)) return status; ... return status;
NPortsRet(c) ==
    /\ pc[c] = "nports_ret"
    /\ out' = [out EXCEPT ![c].numberOfPorts =
                  IF NT_SUCCESS(status[c]) THEN NumberOfPortsOut(c) ELSE @]
    /\ pc' = [pc EXCEPT ![c] = "nports_caller"]
    /\ Log(c, <<Ev("return", "USBPcapGetNumberOfPorts", status[c])>>)
    /\ UNCHANGED <<envVars, status, irpVars, pdoVars, locVars,
                   port, info, nodeInfo, result>>

\* status = USBPcapGetNumberOfPorts(hub, &maxIndex): the caller has the status.
NPortsCaller(c) ==
    /\ pc[c] = "nports_caller"
    /\ pc' = [pc EXCEPT ![c] = "done"]
    /\ result' = [result EXCEPT ![c] = status[c]]
    /\ UNCHANGED <<envVars, status, irpVars, pdoVars, locVars,
                   port, info, nodeInfo, out, trace>>

\* ------------------------------------------------- USBPcapGetTargetDevicePort

\* First statuses of IoGetDeviceProperty with an empty buffer.
ProbeStatus ==
    {STATUS_BUFFER_TOO_SMALL, STATUS_SUCCESS, STATUS_NOT_SUPPORTED,
     STATUS_UNSUCCESSFUL}

\* Bytes of the property: the text and its terminator, in WCHARs of 2 bytes.
PropertyBytes(c) == 2 * (Len(locationText[c]) + 1)

\* WCHARs the pool block of `length` bytes holds.
BlockChars(c) == length[c] \div 2

\* The routine returns `st` to USBPcapGetDeviceUSBAddress.
PortReturn(c, st) ==
    /\ status' = [status EXCEPT ![c] = st]
    /\ pc' = [pc EXCEPT ![c] = "addr_deref"]

\* Variant: the status of the first call is passed on whatever it is.
ProbeFailure_PassedOn(s) == s

\* if (!NT_SUCCESS(status)) return status;
\* return STATUS_INVALID_DEVICE_REQUEST;
ProbeFailure(s) ==
    IF NT_SUCCESS(s) THEN STATUS_INVALID_DEVICE_REQUEST ELSE s

\* status = IoGetDeviceProperty(pdo_device, ..., 0, location, &length);
\* if (status != STATUS_BUFFER_TOO_SMALL) return <ProbeFailure>;
PortProbe(c) ==
    /\ pc[c] = "port_probe"
    /\ \E s \in ProbeStatus :
          /\ IF s = STATUS_BUFFER_TOO_SMALL
             THEN /\ length' = [length EXCEPT ![c] = PropertyBytes(c)]
                  /\ status' = [status EXCEPT ![c] = s]
                  /\ pc' = [pc EXCEPT ![c] = "port_alloc"]
                  /\ Log(c, <<Ev("probe", "pdo", s)>>)
             ELSE /\ PortReturn(c, ProbeFailure(s))
                  /\ Log(c, <<Ev("probe", "pdo", s),
                              Ev("return", "USBPcapGetTargetDevicePort",
                                 ProbeFailure(s))>>)
                  /\ UNCHANGED length
    /\ UNCHANGED <<envVars, irpVars, pdoVars, location, locPool, idx, strLength,
                   overrun, outVars>>

\* location = ExAllocatePoolWithTag(PagedPool, length, ' COL'): a block of
\* `length` bytes of whatever the pool held, or NULL.
PortAlloc(c) ==
    /\ pc[c] = "port_alloc"
    /\ \/ /\ locPool' = [locPool EXCEPT ![c] = "allocated"]
          /\ location' = [location EXCEPT ![c] = [i \in 1..BlockChars(c) |-> "?"]]
          /\ Log(c, <<Ev("alloc", "location", STATUS_SUCCESS)>>)
       \/ /\ locPool' = [locPool EXCEPT ![c] = "null"]
          /\ Log(c, <<Ev("alloc", "location", STATUS_INSUFFICIENT_RESOURCES)>>)
          /\ UNCHANGED location
    /\ pc' = [pc EXCEPT ![c] = "port_fill"]
    /\ UNCHANGED <<envVars, status, irpVars, pdoVars, length, idx, strLength,
                   overrun, outVars>>

\* Statuses of IoGetDeviceProperty with the buffer of the probed size.
FillStatus == {STATUS_SUCCESS, STATUS_NOT_SUPPORTED, STATUS_UNSUCCESSFUL}

\* RtlInitUnicodeString: the WCHARs before the first terminator.
RECURSIVE WcsLen(_)
WcsLen(buf) ==
    IF buf = <<>> \/ Head(buf) = NUL THEN 0 ELSE 1 + WcsLen(Tail(buf))

\* status = IoGetDeviceProperty(pdo_device, ..., length, location, &length);
\* if (!NT_SUCCESS(status)) { ExFreePool(location); return status; }
\* RtlInitUnicodeString(&str, location); for (idx = 0; ...
\* The property is copied through `location`: a NULL `location` is a write
\* through a null pointer in kernel mode, which stops the system.
PortFill(c) ==
    /\ pc[c] = "port_fill"
    /\ IF locPool[c] = "null"
       THEN /\ pc' = [pc EXCEPT ![c] = "bugcheck"]
            /\ Log(c, <<Ev("fill", "null", STATUS_SUCCESS)>>)
            /\ UNCHANGED <<status, location, locPool, idx, strLength>>
       ELSE \E s \in FillStatus :
            IF NT_SUCCESS(s)
            THEN LET filled == locationText[c] \o <<NUL>> IN
                 /\ location' = [location EXCEPT ![c] = filled]
                 /\ strLength' = [strLength EXCEPT ![c] = WcsLen(filled)]
                 /\ idx' = [idx EXCEPT ![c] = 0]
                 /\ status' = [status EXCEPT ![c] = s]
                 /\ pc' = [pc EXCEPT ![c] = "port_scan"]
                 /\ Log(c, <<Ev("fill", "pdo", s)>>)
                 /\ UNCHANGED locPool
            ELSE /\ locPool' = [locPool EXCEPT ![c] = "freed"]
                 /\ PortReturn(c, s)
                 /\ Log(c, <<Ev("fill", "pdo", s),
                             Ev("free", "location", STATUS_SUCCESS),
                             Ev("return", "USBPcapGetTargetDevicePort", s)>>)
                 /\ UNCHANGED <<location, idx, strLength>>
    /\ UNCHANGED <<envVars, irpVars, pdoVars, length, overrun, outVars>>

\* location[i] = L' ': inside the block the WCHAR is blanked, past it some
\* other pool memory is overwritten.
Blanked(c, i) ==
    IF i < BlockChars(c)
    THEN [location EXCEPT ![c][i + 1] = " "]
    ELSE location

\* for (...; location[idx] != L'#' && idx < length; ++idx) location[idx] = L' ';
\* One evaluation of the condition, and the body if it holds.  location[idx]
\* is read before idx is compared; past the block it reads whatever is there.
PortScan(c) ==
    /\ pc[c] = "port_scan"
    /\ LET i       == idx[c]
           inBlock == i < BlockChars(c)
       IN  \E isHash \in (IF inBlock THEN {location[c][i + 1] = "#"} ELSE BOOLEAN) :
           /\ IF ~isHash /\ i < length[c]
              THEN /\ location' = Blanked(c, i)
                   /\ idx' = [idx EXCEPT ![c] = i + 1]
                   /\ overrun' = [overrun EXCEPT ![c] =
                          [read |-> @.read \/ ~inBlock, write |-> @.write \/ ~inBlock]]
                   /\ UNCHANGED pc
              ELSE /\ pc' = [pc EXCEPT ![c] = "port_hash"]
                   /\ overrun' = [overrun EXCEPT ![c].read = @ \/ ~inBlock]
                   /\ UNCHANGED <<location, idx>>
    /\ UNCHANGED <<envVars, status, irpVars, pdoVars, locPool, length, strLength,
                   outVars, trace>>

\* Variant: the '#' the scan stopped at is left in the text.
HashRemoved_Kept(c) == location

\* location[idx] = L' '; /* Remove # as well */
HashRemoved(c) == Blanked(c, idx[c])

PortHash(c) ==
    /\ pc[c] = "port_hash"
    /\ location' = HashRemoved(c)
    /\ overrun' = [overrun EXCEPT ![c].write = @ \/ idx[c] >= BlockChars(c)]
    /\ pc' = [pc EXCEPT ![c] = "port_convert"]
    /\ UNCHANGED <<envVars, status, irpVars, pdoVars, locPool, length, idx,
                   strLength, outVars, trace>>

\* RtlUnicodeStringToInteger(&str, 0, port): what it may return and store.
\* Blanks (characters up to L' ') are skipped, a sign is taken, the digits of
\* the base are accumulated in 32 bits up to the first other character; a
\* string without a digit is the value 0.  For a string of length 0 Windows
\* before Vista stores 0 and succeeds, later versions store nothing and fail.
RtlUnicodeStringToInteger(str, old) ==
    IF str = <<>>
    THEN {[status |-> STATUS_SUCCESS, value |-> ULong(0, 0)],
          [status |-> STATUS_INVALID_PARAMETER, value |-> old]}
    ELSE {[status |-> STATUS_SUCCESS, value |-> ConvertedValue(str)]}

\* str: the Length counted before the blanking, the Buffer `location`.
CountedString(c) == SubSeq(location[c], 1, strLength[c])

\* status = RtlUnicodeStringToInteger(&str, 0, port);
PortConvert(c) ==
    /\ pc[c] = "port_convert"
    /\ \E r \in RtlUnicodeStringToInteger(CountedString(c), port[c]) :
          /\ status' = [status EXCEPT ![c] = r.status]
          /\ port' = [port EXCEPT ![c] = r.value]
          /\ Log(c, <<Ev("convert", "location", r.status)>>)
    /\ pc' = [pc EXCEPT ![c] = "port_free"]
    /\ UNCHANGED <<envVars, irpVars, pdoVars, locVars, info, nodeInfo, out, result>>

\* ExFreePool(location); return status;
\* Freeing a block whose neighbour was overwritten may stop the system.
PortFree(c) ==
    /\ pc[c] = "port_free"
    /\ locPool' = [locPool EXCEPT ![c] = "freed"]
    /\ \/ /\ pc' = [pc EXCEPT ![c] = "addr_deref"]
          /\ Log(c, <<Ev("free", "location", STATUS_SUCCESS),
                      Ev("return", "USBPcapGetTargetDevicePort", status[c])>>)
       \/ /\ overrun[c].write
          /\ pc' = [pc EXCEPT ![c] = "bugcheck"]
          /\ Log(c, <<Ev("free", "location", STATUS_SUCCESS)>>)
    /\ UNCHANGED <<envVars, status, irpVars, pdoVars, location, length, idx,
                   strLength, overrun, outVars>>

\* ------------------------------------------------- the specification

Next ==
    \E c \in Calls :
        \/ PdoBuild(c)
        \/ PdoCall(c)
        \/ PdoWait(c)
        \/ PdoCheck(c)
        \/ AddrPdoRet(c)
        \/ PortProbe(c)
        \/ PortAlloc(c)
        \/ PortFill(c)
        \/ PortScan(c)
        \/ PortHash(c)
        \/ PortConvert(c)
        \/ PortFree(c)
        \/ AddrDeref(c)
        \/ InfoBuild(c)
        \/ InfoCall(c)
        \/ InfoWait(c)
        \/ InfoRet(c)
        \/ AddrInfoRet(c)
        \/ NPortsBuild(c)
        \/ NPortsCall(c)
        \/ NPortsWait(c)
        \/ NPortsRet(c)
        \/ NPortsCaller(c)
        \/ LowerComplete(c)

Spec == Init /\ [][Next]_vars

\* A step of the thread that runs call c.
CallStep(c) ==
    \/ PdoBuild(c) \/ PdoCall(c) \/ PdoWait(c) \/ PdoCheck(c) \/ AddrPdoRet(c)
    \/ PortProbe(c) \/ PortAlloc(c) \/ PortFill(c) \/ PortScan(c) \/ PortHash(c)
    \/ PortConvert(c) \/ PortFree(c) \/ AddrDeref(c)
    \/ InfoBuild(c) \/ InfoCall(c) \/ InfoWait(c) \/ InfoRet(c) \/ AddrInfoRet(c)
    \/ NPortsBuild(c) \/ NPortsCall(c) \/ NPortsWait(c) \/ NPortsRet(c)
    \/ NPortsCaller(c)

\* Every thread keeps running (the calls run at PASSIVE_LEVEL on scheduled
\* threads), and the lower driver completes every request it reported pending.
Fairness ==
    \A c \in Calls : WF_vars(CallStep(c)) /\ WF_vars(LowerComplete(c))

FairSpec == Spec /\ Fairness

\* The device trees of calls that run at the same time: each call has its own
\* device, PDO and hub; the devices sit at port 3 or at port 1.
ConcurrentInputs ==
    {[op |-> "USBPcapGetDeviceUSBAddress", text |-> t, nodeType |-> "UsbHub"] :
        t \in {<<"#", "3", ".">>, <<"#", "1", ".">>}}
    \cup {[op |-> "USBPcapGetNumberOfPorts", text |-> <<>>, nodeType |-> "UsbHub"]}

\* All calls run, their steps interleaved in any order.
ConcurrentSpec == InitCalls(Calls, ConcurrentInputs) /\ [][Next]_vars

\* ------------------------------------------------- reading the trace

Positions(c) == 1..Len(trace[c])

\* How often call c did e on k.
Count(c, e, k) ==
    Cardinality({i \in Positions(c) : trace[c][i].e = e /\ trace[c][i].k = k})

IsAddressCall(c) == op[c] = "USBPcapGetDeviceUSBAddress"

Returned(c) == pc[c] = "done"

\* The status routine fn returned to its caller in call c, if it did.
HasReturned(c, fn) ==
    \E i \in Positions(c) : trace[c][i].e = "return" /\ trace[c][i].k = fn

ReturnedStatus(c, fn) ==
    trace[c][CHOOSE i \in Positions(c) :
                trace[c][i].e = "return" /\ trace[c][i].k = fn].s

\* A step of the pipeline that failed: no request built, a request that ended
\* with a failure status, a property query that did not answer as expected,
\* a conversion that failed.
Failing(ev) ==
    \/ ev.e = "build" /\ ev.s # STATUS_SUCCESS
    \/ ev.e = "dispatch" /\ ev.s # STATUS_PENDING /\ ~NT_SUCCESS(ev.s)
    \/ ev.e = "wait" /\ ~NT_SUCCESS(ev.s)
    \/ ev.e = "probe" /\ ev.s # STATUS_BUFFER_TOO_SMALL
    \/ ev.e \in {"fill", "convert"} /\ ~NT_SUCCESS(ev.s)

\* A step that asks something of the lower layers or of the platform.
Attempt(ev) ==
    ev.e \in {"build", "dispatch", "wait", "probe", "alloc", "fill", "convert"}

\* The status a failed step stands for: a first property call that succeeded
\* outright is the failure STATUS_INVALID_DEVICE_REQUEST.
StepStatus(ev) ==
    IF ev.e = "probe" /\ NT_SUCCESS(ev.s)
    THEN STATUS_INVALID_DEVICE_REQUEST ELSE ev.s

NoStepFailed(c) == \A i \in Positions(c) : ~Failing(trace[c][i])

\* ------------------------------------------------- C1

\* C1: when a call of USBPcapGetDeviceUSBAddress has returned, it has released
\* the PDO as often as references were acquired for it: once if
\* USBPcapGetTargetDevicePdo succeeded, never if it failed, and the reference
\* count of the PDO is what it was before the call.
C1_PdoReferencesBalance ==
    \A c \in Calls :
        IsAddressCall(c) /\ Returned(c) =>
            /\ Count(c, "release", "pdo") = Count(c, "acquire", "pdo")
            /\ Count(c, "release", "pdo") =
                  IF NT_SUCCESS(ReturnedStatus(c, "USBPcapGetTargetDevicePdo"))
                  THEN 1 ELSE 0
            /\ refCount[PdoOf(c)] = RefBaseline

\* A call that got the PDO, failed in a later step, and has returned.
C1_Witness ==
    \E c \in Calls :
        /\ IsAddressCall(c) /\ Returned(c)
        /\ NT_SUCCESS(ReturnedStatus(c, "USBPcapGetTargetDevicePdo"))
        /\ ~NT_SUCCESS(result[c])
        /\ Count(c, "release", "pdo") = 1

\* ------------------------------------------------- the location convention

DecimalDigits == {"0", "1", "2", "3", "4", "5", "6", "7", "8", "9"}

HasHash(t) == \E i \in 1..Len(t) : t[i] = "#"

FirstHash(t) ==
    CHOOSE i \in 1..Len(t) : t[i] = "#" /\ \A j \in 1..(i - 1) : t[j] # "#"

\* The decimal digits right after the first '#'.
DigitRun(t) ==
    LET h == FirstHash(t)
        e == CHOOSE n \in h..Len(t) :
                /\ \A j \in (h + 1)..n : t[j] \in DecimalDigits
                /\ n < Len(t) => t[n + 1] \notin DecimalDigits
    IN  SubSeq(t, h + 1, e)

\* <prefix>#<digits>.<suffix>
Conventional(t) ==
    /\ HasHash(t)
    /\ DigitRun(t) # <<>>
    /\ LET after == FirstHash(t) + Len(DigitRun(t)) + 1
       IN  after <= Len(t) /\ t[after] = "."

\* A natural number of any size: its digits to the base 65536, lowest first,
\* without leading zeros.
RECURSIVE BigMulAdd(_, _, _)
BigMulAdd(n, m, carry) ==
    IF n = <<>>
    THEN IF carry = 0 THEN <<>> ELSE <<carry>>
    ELSE LET x == Head(n) * m + carry
         IN  <<x % 65536>> \o BigMulAdd(Tail(n), m, x \div 65536)

RECURSIVE BigDecimalFrom(_, _)
BigDecimalFrom(digits, acc) ==
    IF digits = <<>> THEN acc
    ELSE BigDecimalFrom(Tail(digits), BigMulAdd(acc, 10, DigitOf(Head(digits))))

\* The number a run of decimal digits denotes.
BigDecimal(digits) == BigDecimalFrom(digits, <<>>)

\* The number a ULONG holds.
BigOf(v) ==
    IF v.hi # 0 THEN <<v.lo, v.hi>> ELSE IF v.lo # 0 THEN <<v.lo>> ELSE <<>>

\* A number modulo 2^32, as a ULONG.
Low32(n) ==
    ULong(IF Len(n) >= 2 THEN n[2] ELSE 0, IF Len(n) >= 1 THEN n[1] ELSE 0)

\* The text names port p of the hub.
NamesPort(t, p) == Conventional(t) /\ BigDecimal(DigitRun(t)) = BigOf(ULongOf(p))

\* ------------------------------------------------- C2

\* C2: when the location text of the device names port P of the hub
\* (1 <= P <= NumPorts) and no step of the call failed, the call returns
\* STATUS_SUCCESS and *address is the address the hub holds for port P.
C2_AddressOfNamedPort ==
    \A c \in Calls : \A p \in 1..NumPorts :
        /\ IsAddressCall(c) /\ Returned(c)
        /\ NamesPort(locationText[c], p)
        /\ NoStepFailed(c)
        => /\ result[c] = STATUS_SUCCESS
           /\ out[c].address = HubAddress(c, p)
           /\ \A q \in 1..NumPorts : q # p => out[c].address # HubAddress(c, q)

\* A call on a device at port 3, named with leading zeros, that got an address.
C2_Witness ==
    \E c \in Calls :
        /\ IsAddressCall(c) /\ Returned(c)
        /\ NamesPort(locationText[c], 3)
        /\ Len(DigitRun(locationText[c])) > 1
        /\ NoStepFailed(c)
        /\ out[c].address = HubAddress(c, 3)

\* ------------------------------------------------- C3

\* C3: in a call of USBPcapGetDeviceUSBAddress no step is attempted after a
\* step that failed, no step is attempted twice, and the status the call
\* returns is the status of the step that failed.
C3_FirstFailureEndsPipeline ==
    \A c \in Calls :
        IsAddressCall(c) =>
            /\ \A i, j \in Positions(c) :
                  i < j /\ Failing(trace[c][i]) => ~Attempt(trace[c][j])
            /\ \A i, j \in Positions(c) :
                  /\ i < j
                  /\ Attempt(trace[c][i])
                  /\ trace[c][i].e = trace[c][j].e
                  => trace[c][i].k # trace[c][j].k
            /\ Returned(c) =>
                  \A i \in Positions(c) :
                      Failing(trace[c][i]) => result[c] = StepStatus(trace[c][i])

\* A call whose second property query failed: it has returned that status and
\* never built a request for the hub.
C3_Witness ==
    \E c \in Calls :
        /\ IsAddressCall(c) /\ Returned(c)
        /\ \E i \in Positions(c) :
              /\ trace[c][i].e = "fill" /\ Failing(trace[c][i])
              /\ result[c] = trace[c][i].s
        /\ Count(c, "build", "connection") = 0

\* ------------------------------------------------- C4

AfterBridge == {"pdo_check", "info_ret", "nports_ret"}

WasPending(c) ==
    \E i \in Positions(c) :
        /\ trace[c][i] = Ev("dispatch", irp[c].kind, STATUS_PENDING)

\* C4: a bridge call whose dispatch reported STATUS_PENDING goes on only after
\* the lower driver has completed the request and signalled the event, and
\* goes on with the status of the I/O status block; no routine returns
\* STATUS_PENDING.
C4_PendingWaitsForCompletion ==
    \A c \in Calls :
        /\ \A i \in Positions(c) :
              trace[c][i].e = "wait" =>
                  \E j \in 1..(i - 1) :
                      trace[c][j] = Ev("complete", trace[c][i].k, trace[c][i].s)
        /\ pc[c] \in AfterBridge /\ WasPending(c) =>
              /\ event[c]
              /\ irp[c].state = "completed"
              /\ status[c] = ioStatus[c].Status
              /\ Count(c, "wait", irp[c].kind) = 1
        /\ \A i \in Positions(c) :
              trace[c][i].e = "return" => trace[c][i].s # STATUS_PENDING
        /\ result[c] # STATUS_PENDING

\* The hub answered STATUS_PENDING, completed the request with a failure, and
\* USBPcapGetNodeInformation has gone on after its wait.
C4_Witness ==
    \E c \in Calls :
        /\ pc[c] = "info_ret" /\ WasPending(c)
        /\ ~NT_SUCCESS(status[c])
        /\ Count(c, "wait", "connection") = 1

\* ------------------------------------------------- C5

Waiting == {"pdo_wait", "info_wait", "nports_wait"}

\* The status IoCallDriver returned for the request of call c.
DispatchStatus(c) ==
    trace[c][CHOOSE i \in Positions(c) :
                trace[c][i].e = "dispatch" /\ trace[c][i].k = irp[c].kind].s

\* C5: a bridge call whose dispatch returned a status other than
\* STATUS_PENDING never enters the wait and goes on with that status.
C5_ImmediateStatusUsedDirectly ==
    \A c \in Calls :
        /\ pc[c] \in Waiting => DispatchStatus(c) = STATUS_PENDING
        /\ \A i \in Positions(c) :
              trace[c][i].e = "wait" =>
                  \E j \in 1..(i - 1) :
                      trace[c][j] = Ev("dispatch", trace[c][i].k, STATUS_PENDING)
        /\ pc[c] \in AfterBridge /\ DispatchStatus(c) # STATUS_PENDING =>
              /\ status[c] = DispatchStatus(c)
              /\ Count(c, "wait", irp[c].kind) = 0

\* The bus driver answered the relations query at once, with a failure.
C5_Witness ==
    \E c \in Calls :
        /\ pc[c] = "pdo_check"
        /\ DispatchStatus(c) = STATUS_NOT_SUPPORTED
        /\ status[c] = STATUS_NOT_SUPPORTED
        /\ Count(c, "wait", "relations") = 0

\* ------------------------------------------------- C6

\* C6: a bridge call that could not build its request returns
\* STATUS_INSUFFICIENT_RESOURCES at once: the request is never dispatched and
\* the event never waited on.
C6_BuildFailureReturnsAtOnce ==
    \A c \in Calls : \A i \in Positions(c) :
        trace[c][i].e = "build" /\ trace[c][i].s # STATUS_SUCCESS =>
            /\ i < Len(trace[c])
            /\ trace[c][i + 1].e = "return"
            /\ trace[c][i + 1].s = STATUS_INSUFFICIENT_RESOURCES
            /\ Count(c, "dispatch", trace[c][i].k) = 0
            /\ Count(c, "wait", trace[c][i].k) = 0
            /\ Count(c, "complete", trace[c][i].k) = 0
            /\ irp[c].kind # trace[c][i].k
            /\ pc[c] \notin Waiting

\* The request for the hub could not be built, and the call has returned.
C6_Witness ==
    \E c \in Calls :
        /\ Returned(c)
        /\ \E i \in Positions(c) :
              trace[c][i] = Ev("build", "connection", STATUS_INSUFFICIENT_RESOURCES)
        /\ result[c] = STATUS_INSUFFICIENT_RESOURCES

\* ------------------------------------------------- C7

\* C7: once USBPcapGetTargetDevicePdo has returned: with a success status,
\* *pdo is the first object of the relations list and the list was freed
\* exactly once; with any other status *pdo is not written, nothing was freed
\* and no reference on the PDO was taken.
C7_PdoHandedOverOnSuccessOnly ==
    \A c \in Calls :
        HasReturned(c, "USBPcapGetTargetDevicePdo") /\ pc[c] = "addr_pdo_ret" =>
            IF NT_SUCCESS(ReturnedStatus(c, "USBPcapGetTargetDevicePdo"))
            THEN /\ devicePdo[c] = PdoOf(c)
                 /\ relations[c].pool = "freed"
                 /\ Count(c, "free", "relations") = 1
                 /\ refCount[PdoOf(c)] = RefBaseline + 1
            ELSE /\ devicePdo[c] = Uninit
                 /\ relations[c].pool = "none"
                 /\ Count(c, "free", "relations") = 0
                 /\ Count(c, "acquire", "pdo") = 0
                 /\ refCount[PdoOf(c)] = RefBaseline

\* USBPcapGetTargetDevicePdo has returned the failure its wait ended with.
C7_Witness ==
    \E c \in Calls :
        /\ pc[c] = "addr_pdo_ret"
        /\ Count(c, "wait", "relations") = 1
        /\ ~NT_SUCCESS(status[c])
        /\ devicePdo[c] = Uninit

\* ------------------------------------------------- C8, C9, C10

\* USBPcapGetTargetDevicePort has converted the text: `status` and `port` are
\* what the parse gave.
Parsed(c) == pc[c] = "port_free"

\* C8: the parse of a location text without a '#' ends with a failure status.
C8_NoHashFails ==
    \A c \in Calls :
        Parsed(c) /\ ~HasHash(locationText[c]) => ~NT_SUCCESS(status[c])

\* C9: the parse of a location text whose first '#' is not followed by a
\* decimal digit ends with a failure status.
C9_NoDigitsFails ==
    \A c \in Calls :
        /\ Parsed(c)
        /\ HasHash(locationText[c])
        /\ DigitRun(locationText[c]) = <<>>
        => ~NT_SUCCESS(status[c])

C11_ProbeAnomalyFails ==
    \A c \in Calls : \A i \in Positions(c) :
        trace[c][i].e = "probe" /\ trace[c][i].s # STATUS_BUFFER_TOO_SMALL =>
            /\ locPool[c] = "unset"
            /\ Count(c, "alloc", "location") = 0
            /\ \A j \in Positions(c) : trace[c][j].e # "fill"
            /\ i < Len(trace[c])
            /\ trace[c][i + 1].e = "return"
            /\ trace[c][i + 1].k = "USBPcapGetTargetDevicePort"
            /\ trace[c][i + 1].s =
                  IF NT_SUCCESS(trace[c][i].s)
                  THEN STATUS_INVALID_DEVICE_REQUEST ELSE trace[c][i].s
            /\ ~NT_SUCCESS(trace[c][i + 1].s)
            /\ Returned(c) => result[c] = trace[c][i + 1].s

\* The first call succeeded outright, and the call has returned
\* STATUS_INVALID_DEVICE_REQUEST.
C11_Witness ==
    \E c \in Calls :
        /\ Returned(c)
        /\ \E i \in Positions(c) : trace[c][i] = Ev("probe", "pdo", STATUS_SUCCESS)
        /\ result[c] = STATUS_INVALID_DEVICE_REQUEST
        /\ locPool[c] = "unset"

\* ------------------------------------------------- C12

IsPortCountCall(c) == op[c] = "USBPcapGetNumberOfPorts"

\* C12: when USBPcapGetNumberOfPorts has returned a success status,
\* *numberOfPorts is the port count of the hub descriptor if the node answered
\* as a hub and the interface count if it answered as a composite parent; when
\* it has returned a failure status, that is the status of the step that
\* failed and *numberOfPorts is what it was before the call.
C12_PortCountByNodeType ==
    \A c \in Calls :
        IsPortCountCall(c) /\ HasReturned(c, "USBPcapGetNumberOfPorts") =>
            LET st == ReturnedStatus(c, "USBPcapGetNumberOfPorts")
            IN  /\ NT_SUCCESS(st) /\ pc[c] \in {"nports_caller", "done"} =>
                      /\ nodeInfo[c].NodeType = nodeType[c]
                      /\ nodeType[c] = "UsbHub" => out[c].numberOfPorts = NumPorts
                      /\ nodeType[c] = "UsbMIParent" =>
                            out[c].numberOfPorts = NumInterfaces
                /\ ~NT_SUCCESS(st) =>
                      /\ out[c].numberOfPorts = PreCall
                      /\ \E i \in Positions(c) :
                            Failing(trace[c][i]) /\ trace[c][i].s = st
                /\ Returned(c) => result[c] = st

\* A composite parent answered, and the interface count was returned.
C12_Witness ==
    \E c \in Calls :
        /\ IsPortCountCall(c) /\ Returned(c)
        /\ result[c] = STATUS_SUCCESS
        /\ nodeInfo[c].NodeType = "UsbMIParent"
        /\ out[c].numberOfPorts = NumInterfaces

\* ------------------------------------------------- C13

\* C13: when USBPcapGetNodeInformation, called for a port of the hub, has
\* returned a failure status, the caller's USB_NODE_CONNECTION_INFORMATION
\* holds what it held before the call.
C13_NoPartialHubPortInfo ==
    \A c \in Calls :
        /\ HasReturned(c, "USBPcapGetNodeInformation")
        /\ ~NT_SUCCESS(ReturnedStatus(c, "USBPcapGetNodeInformation"))
        /\ ValidPort(port[c])
        => info[c] = UninitInfo

\* ------------------------------------------------- C14

HubQuerySucceeded(c) ==
    /\ HasReturned(c, "USBPcapGetNodeInformation")
    /\ NT_SUCCESS(ReturnedStatus(c, "USBPcapGetNodeInformation"))

\* C14: *address is written only by a call whose hub query returned a success
\* status, and then it is the DeviceAddress the hub stored; until then, and
\* when the call has returned a failure status, *address is what it was
\* before the call.
C14_AddressOnlyOnSuccess ==
    \A c \in Calls :
        IsAddressCall(c) =>
            /\ out[c].address # PreCall =>
                  /\ Returned(c)
                  /\ HubQuerySucceeded(c)
                  /\ out[c].address = info[c].DeviceAddress
            /\ Returned(c) /\ ~NT_SUCCESS(result[c]) => out[c].address = PreCall
            /\ Returned(c) /\ NT_SUCCESS(result[c]) =>
                  HubQuerySucceeded(c) /\ out[c].address # PreCall

\* The hub query failed after its wait; the call has returned, *address
\* untouched.
C14_Witness ==
    \E c \in Calls :
        /\ IsAddressCall(c) /\ Returned(c)
        /\ Count(c, "wait", "connection") = 1
        /\ ~NT_SUCCESS(result[c])
        /\ out[c].address = PreCall

\* ------------------------------------------------- C15

\* C15: every request a call of USBPcapGetDeviceUSBAddress sends to the hub
\* carries a connection index of at least 1; stated for the location texts
\* that have digits after their first '#', a run of zeros among them.
C15_PortIndexAtLeastOne ==
    \A c \in Calls :
        /\ IsAddressCall(c)
        /\ HasHash(locationText[c]) /\ DigitRun(locationText[c]) # <<>>
        /\ Count(c, "dispatch", "connection") > 0
        => info[c].ConnectionIndex.hi > 0 \/ info[c].ConnectionIndex.lo >= 1

\* ------------------------------------------------- C16

\* Everything the model holds for call c.
Local(c) ==
    <<op[c], locationText[c], nodeType[c], pc[c], status[c], irp[c], event[c],
      ioStatus[c], refCount[PdoOf(c)], relations[c], devicePdo[c], location[c],
      locPool[c], length[c], idx[c], strLength[c], overrun[c], port[c],
      info[c], nodeInfo[c], out[c], result[c], trace[c]>>

\* What holds of every call, whatever the other calls do: it goes on after a
\* wait only when its own request was completed, with that request's status;
\* it holds and releases its own PDO only, whose reference count moves with
\* its own acquisitions and releases and is at the baseline on return; and
\* when none of its steps failed it returns the address its own hub holds for
\* the port its own device is at.
C16_EachCallOnItsOwn ==
    \A c \in Calls :
        /\ \A i \in Positions(c) :
              trace[c][i].e = "wait" =>
                  \E j \in 1..(i - 1) :
                      trace[c][j] = Ev("complete", trace[c][i].k, trace[c][i].s)
        /\ event[c] => irp[c].state = "completed"
        /\ devicePdo[c] \in {Uninit, PdoOf(c)}
        /\ refCount[PdoOf(c)] =
              RefBaseline + Count(c, "acquire", "pdo") - Count(c, "release", "pdo")
        /\ Returned(c) => refCount[PdoOf(c)] = RefBaseline
        /\ \A p \in 1..NumPorts :
              /\ IsAddressCall(c) /\ Returned(c)
              /\ NamesPort(locationText[c], p)
              /\ NoStepFailed(c)
              => /\ result[c] = STATUS_SUCCESS
                 /\ out[c].address = HubAddress(c, p)
                 /\ \A d \in Calls \ {c} : \A q \in 1..NumPorts :
                       out[c].address # HubAddress(d, q)

\* A step is the step of one call, or the completion of one call's request:
\* it leaves what belongs to every other call as it was.
C16_OneCallPerStep ==
    \E d \in Calls : \A c \in Calls \ {d} : Local(c)' = Local(c)

\* C16: calls of USBPcapGetDeviceUSBAddress that run at the same time on
\* device trees of their own, their steps interleaved in any order, each
\* return the address of their own device's port and release their own PDO
\* only; no step of one call changes the result, the completion event or the
\* reference count of another.
C16_ConcurrentCallsIndependent ==
    []C16_EachCallOnItsOwn /\ [][C16_OneCallPerStep]_vars

\* Two calls of USBPcapGetDeviceUSBAddress, both after a pending hub query,
\* have returned the addresses of their own devices.
C16_Witness ==
    /\ \A c \in Calls : IsAddressCall(c) /\ Returned(c)
    /\ \A c \in Calls : Count(c, "wait", "connection") = 1
    /\ out[1].address = HubAddress(1, 3)
    /\ out[2].address = HubAddress(2, 1)

\* ------------------------------------------------- C17

\* Every call of USBPcapGetDeviceUSBAddress has returned.
AllReturned == \A c \in Calls : IsAddressCall(c) => Returned(c)

\* A call that waits for an event nobody has signalled stays where it is.
BlockedStays ==
    \A c \in Calls : pc[c] \in Waiting /\ ~event[c] => pc'[c] = pc[c]

\* C17: with every thread running and every pending request completed in the
\* end, every call of USBPcapGetDeviceUSBAddress returns in the end; and a
\* call waiting for a completion that has not come takes no step.
C17_ReturnsUnlessBlocked ==
    <>AllReturned /\ [][BlockedStays]_vars

\* ------------------------------------------------- C18

\* C18: the scan for '#' and the blanking read and write no WCHAR at or past
\* the end of the block `location` points to.
C18_ScanStaysInBuffer ==
    \A c \in Calls : ~overrun[c].read /\ ~overrun[c].write

\* ------------------------------------------------- C19

\* C19: once USBPcapGetTargetDevicePort has returned, the location buffer was
\* freed as often as it was allocated, never more than once, and not
\* allocated at all when the first property call failed; and a buffer whose
\* allocation failed is not handed to the second property call, written or
\* freed.
C19_LocationFreedOnce ==
    \A c \in Calls :
        /\ Count(c, "free", "location") <= 1
        /\ HasReturned(c, "USBPcapGetTargetDevicePort") =>
              /\ Count(c, "free", "location") =
                    Cardinality({i \in Positions(c) :
                        trace[c][i] = Ev("alloc", "location", STATUS_SUCCESS)})
              /\ locPool[c] \in {"unset", "freed"}
        /\ locPool[c] = "null" =>
              /\ \A i \in Positions(c) : trace[c][i].e # "fill"
              /\ Count(c, "free", "location") = 0
              /\ pc[c] # "bugcheck"

\* ------------------------------------------------- C20

\* Where a call stands inside USBPcapGetTargetDevicePort, or right after it.
WithPdo ==
    {"port_probe", "port_alloc", "port_fill", "port_scan", "port_hash",
     "port_convert", "port_free", "addr_deref"}

\* The reference USBPcapGetTargetDevicePdo took is still there.
PdoHeld(c) == refCount[PdoOf(c)] > RefBaseline

\* C20: both property queries on the PDO come after the reference was taken
\* and before it is released, the reference is held all through
\* USBPcapGetTargetDevicePort, it is released before the request for the hub
\* is built, and nothing is asked of the PDO after the release.
C20_PdoUsedOnlyWhileHeld ==
    \A c \in Calls :
        IsAddressCall(c) =>
            /\ pc[c] \in WithPdo => PdoHeld(c) /\ devicePdo[c] = PdoOf(c)
            /\ \A i \in Positions(c) :
                  trace[c][i].e \in {"probe", "fill"} =>
                      /\ \E a \in 1..(i - 1) :
                            trace[c][a] = Ev("acquire", "pdo", STATUS_SUCCESS)
                      /\ \A r \in 1..i : trace[c][r].e # "release"
            /\ \A i \in Positions(c) :
                  trace[c][i].k = "connection" =>
                      /\ \E r \in 1..(i - 1) : trace[c][r].e = "release"
                      /\ ~PdoHeld(c)
            /\ pc[c] \in {"info_build", "info_call", "info_wait", "info_ret",
                          "addr_info_ret"} =>
                  ~PdoHeld(c) /\ Count(c, "release", "pdo") = 1

\* The hub is being asked, after both property queries and the release.
C20_Witness ==
    \E c \in Calls :
        /\ pc[c] = "info_call"
        /\ \E i \in Positions(c) : trace[c][i] = Ev("fill", "pdo", STATUS_SUCCESS)
        /\ Count(c, "release", "pdo") = 1
        /\ ~PdoHeld(c)

====
